---- MODULE Spec2Model ----
(***************************************************************************)
(* Model of the Telegram vocabulary bot: the message dispatcher of bot.py  *)
(* (handle_message and the flow handlers it calls), the RemoteClient       *)
(* functions of bot.py and the UserManager store of users.py.              *)
(*                                                                         *)
(* A text is a sequence of characters (one-element strings); the Python    *)
(* string methods the handlers use (strip, lower, split, startswith) are   *)
(* operators over such sequences.  Cyrillic letters are written cy_x       *)
(* (lower case) and CY_X (upper case).                                     *)
(***************************************************************************)
EXTENDS Integers, Sequences, FiniteSets, TLC

VARIABLES
  users,      \* UserManager.users: str(user_id) -> record (users.py:12)
  disk,       \* the users.json file (users.py:11)
  user_data,  \* context.user_data of every Telegram user: the four awaiting_* flags
  now,        \* the reading of datetime.now() at the last event
  ev,         \* the update just handled, with users, disk and user_data as they
              \* were before its handler ran and the inputs it met; Idle while
              \* run_polling waits for an update
  calls,      \* HTTP requests the handler of ev made, in order, with their outcome
  replies,    \* reply_text / reply_document calls of the handler of ev, in order
  renders,    \* generate_pdf calls of the handler of ev
  faults,     \* how many events met a failing write of users.json so far
  tally,      \* SpecStore: the direct calls of increment_stat and
              \* update_user_activity that changed a record, counted per user
              \* since that user's record was created
  inflight,   \* SpecWire: the updates whose handler has sent its request to the
              \* website and has not got the response yet
  stored      \* the records the last write of users.json that succeeded has
              \* written (history of the file, read by no operation)

vars == <<users, disk, user_data, now, ev, calls, replies, renders, faults, tally,
          inflight, stored>>

-----------------------------------------------------------------------------
(* Bounds of the model *)

\* Spec: updates are handled while the total_messages counters sum to less than this
MaxMessages == 3
\* Spec: datetime.now() ranges over 0..MaxClock
MaxClock == 0
\* SpecFaulty: the same two bounds, and how many updates may meet a failing
\* write of users.json
MaxFaultyMessages == 2
MaxFaultyClock == 0
MaxFaults == 1
\* SpecStore: the store is called while fewer than this many calls are counted
\* in tally, and datetime.now() ranges over 0..MaxStoreClock
MaxStoreCalls == 2
MaxStoreClock == 1
\* SpecStoreFaulty: the same two bounds, and how many calls may meet a failing
\* write of users.json
MaxFaultyStoreCalls == 1
MaxFaultyStoreClock == 0
MaxStoreFaults == 1
\* SpecWire: updates are taken while the total_messages counters sum to less than this
MaxWireMessages == 2

UserIds == {1, 2}

\* Python's None
None == "<None>"

\* update.effective_user of each Telegram user (user 2 has no username)
effective_user(uid) ==
  IF uid = 1
    THEN [id |-> 1, username |-> "alice", first_name |-> "Alice", last_name |-> None]
    ELSE [id |-> uid, username |-> None, first_name |-> "Bob", last_name |-> "B"]

\* str(user_id)
str(uid) == IF uid = 1 THEN "1" ELSE IF uid = 2 THEN "2" ELSE "3"

-----------------------------------------------------------------------------
(* Python string methods over character sequences *)

Whitespace == {" ", "\t"}

LowerOf == [c \in {"C", "D", "E", "G", "H", "I", "L", "N", "O", "P", "R", "S", "T", "U", "W", "Z", "CY_R"} |->
  CASE c = "C" -> "c" [] c = "D" -> "d" [] c = "E" -> "e" [] c = "G" -> "g"
    [] c = "H" -> "h" [] c = "I" -> "i" [] c = "L" -> "l" [] c = "N" -> "n"
    [] c = "O" -> "o" [] c = "P" -> "p" [] c = "R" -> "r" [] c = "S" -> "s"
    [] c = "T" -> "t" [] c = "U" -> "u" [] c = "W" -> "w" [] c = "Z" -> "z"
    [] c = "CY_R" -> "cy_r"]

\* str.lower()
lower(s) == [i \in 1..Len(s) |-> IF s[i] \in DOMAIN LowerOf THEN LowerOf[s[i]] ELSE s[i]]

RECURSIVE lstrip(_)
lstrip(s) == IF s # <<>> /\ Head(s) \in Whitespace THEN lstrip(Tail(s)) ELSE s

RECURSIVE rstrip(_)
rstrip(s) ==
  IF s # <<>> /\ s[Len(s)] \in Whitespace THEN rstrip(SubSeq(s, 1, Len(s) - 1)) ELSE s

\* str.strip()
strip(s) == rstrip(lstrip(s))

RECURSIVE split_acc(_, _, _)
split_acc(s, cur, acc) ==
  IF s = <<>>
    THEN (IF cur = <<>> THEN acc ELSE Append(acc, cur))
    ELSE IF Head(s) \in Whitespace
      THEN split_acc(Tail(s), <<>>, IF cur = <<>> THEN acc ELSE Append(acc, cur))
      ELSE split_acc(Tail(s), Append(cur, Head(s)), acc)

\* str.split(): the words between runs of whitespace
split(s) == split_acc(s, <<>>, <<>>)

\* str.split(' ', 1): cut at the first space character only
split_space_1(s) ==
  IF \E i \in 1..Len(s) : s[i] = " "
    THEN LET i == CHOOSE k \in 1..Len(s) : s[k] = " " /\ \A j \in 1..(k - 1) : s[j] # " "
         IN <<SubSeq(s, 1, i - 1), SubSeq(s, i + 1, Len(s))>>
    ELSE <<s>>

\* str.startswith('#')
startswith_hash(s) == s # <<>> /\ s[1] = "#"

\* [word for word in text.split() if word.startswith('#')]
hashtags_of(text) == SelectSeq(split(text), startswith_hash)

-----------------------------------------------------------------------------
(* translations.get_text: the menu-button labels.  translations.py is not   *)
(* part of the sources; the labels are taken from the specification: one    *)
(* label per menu item and language, and a label may contain a marker token *)

Languages == {"en", "ru", "uz"}

MenuKeys == {"help", "create_hashtag", "delete_hashtag", "import_list",
             "language_button", "open_website", "profile", "register"}

EnglishLabel(key) ==
  CASE key = "help" -> <<"H", "e", "l", "p">>
    [] key = "create_hashtag" -> <<"C", "r", "e", "a", "t", "e">>
    [] key = "delete_hashtag" -> <<"D", "e", "l", "e", "t", "e">>
    [] key = "import_list" -> <<"I", "m", "p", "o", "r", "t">>
    [] key = "language_button" -> <<"L", "a", "n", "g">>
    [] key = "open_website" -> <<"O", "p", "e", "n", " ", "#", "w", "e", "b">>
    [] key = "profile" -> <<"P", "r", "o", "f", "i", "l", "e">>
    [] key = "register" -> <<"R", "e", "g", "i", "s", "t", "e", "r">>

get_text(key, lang) ==
  IF lang = "en" THEN EnglishLabel(key)
  ELSE IF lang = "ru" THEN EnglishLabel(key) \o <<" ", "r", "u">>
  ELSE EnglishLabel(key) \o <<" ", "u", "z">>

-----------------------------------------------------------------------------
(* The world a handler works on is a record W of the mutable program state: *)
(* users, disk, user_data, calls, replies, renders.  The inputs of one      *)
(* event are a record E: now (the clock), later (the second reading of the  *)
(* clock that register_user takes), fs (what happens to a write of          *)
(* users.json during this event), resp (the HTTP response of the remote     *)
(* service), pdf (whether the PDF can be generated and sent).               *)

-----------------------------------------------------------------------------
(* users.py: UserManager *)

\* the file does not exist before the first write
NoFile == [state |-> "missing", data |-> <<>>]

\* load_users: the decoded file; {} if it is missing or cannot be decoded
load_users(file) == IF file.state = "json" THEN file.data ELSE <<>>

\* save_users: open(users_file, 'w') truncates, json.dump writes; an exception
\* of either is logged and swallowed
save_users(W, fs) ==
  CASE fs = "ok" -> [W EXCEPT !.disk = [state |-> "json", data |-> W.users]]
    [] fs = "open_error" -> W
    [] fs = "write_error" -> [W EXCEPT !.disk = [state |-> "corrupt", data |-> <<>>]]

StatNames == {"words_saved", "hashtags_created", "hashtags_deleted",
              "pdfs_generated", "total_messages"}

\* registered_at and last_activity are two readings of datetime.now(), in this order
new_user_data(user_id, username, first_name, last_name, t, t_later) ==
  [user_id |-> user_id, username |-> username, first_name |-> first_name,
   last_name |-> last_name, language |-> "en",
   registered_at |-> t, last_activity |-> t_later,
   stats |-> [words_saved |-> 0, hashtags_created |-> 0, hashtags_deleted |-> 0,
              pdfs_generated |-> 0, total_messages |-> 0],
   preferences |-> [auto_save |-> TRUE, notifications |-> TRUE]]

\* the value register_user returns
register_user_returns(W, user_id) == str(user_id) \notin DOMAIN W.users

\* register_user taking the reading for last_activity before that for registered_at
register_user_activity_first(W, user_id, username, first_name, last_name, E) ==
  IF str(user_id) \in DOMAIN W.users
    THEN W
    ELSE save_users(
           [W EXCEPT !.users = (str(user_id) :>
                new_user_data(user_id, username, first_name, last_name,
                              E.later, E.now)) @@ @],
           E.fs)

\* register_user without the test for an existing record
register_user_overwrites(W, user_id, username, first_name, last_name, E) ==
  save_users(
    [W EXCEPT !.users =
       [k \in (DOMAIN @) \cup {str(user_id)} |->
          IF k = str(user_id)
            THEN new_user_data(user_id, username, first_name, last_name, E.now, E.later)
            ELSE @[k]]],
    E.fs)

register_user(W, user_id, username, first_name, last_name, E) ==
  IF str(user_id) \in DOMAIN W.users
    THEN W
    ELSE save_users(
           [W EXCEPT !.users = (str(user_id) :>
                new_user_data(user_id, username, first_name, last_name,
                              E.now, E.later)) @@ @],
           E.fs)

\* update_user_language without the call of save_users
update_user_language_no_save(W, user_id, language, E) ==
  IF str(user_id) \in DOMAIN W.users
    THEN [W EXCEPT !.users[str(user_id)].language = language,
                   !.users[str(user_id)].last_activity = E.now]
    ELSE W

\* update_user_language creating the record of a user who has none
update_user_language_creates(W, user_id, language, E) ==
  save_users(
    [W EXCEPT !.users =
       [k \in (DOMAIN @) \cup {str(user_id)} |->
          IF k # str(user_id) THEN @[k]
          ELSE IF k \in DOMAIN @
            THEN [@[k] EXCEPT !.language = language, !.last_activity = E.now]
            ELSE [language |-> language, last_activity |-> E.now]]],
    E.fs)

update_user_language(W, user_id, language, E) ==
  IF str(user_id) \in DOMAIN W.users
    THEN save_users([W EXCEPT !.users[str(user_id)].language = language,
                              !.users[str(user_id)].last_activity = E.now], E.fs)
    ELSE W

\* update_user_activity keeping its change only when the file was written
update_user_activity_rolls_back(W, user_id, E) ==
  IF str(user_id) \in DOMAIN W.users
    THEN LET W1 == save_users(
                     [W EXCEPT !.users[str(user_id)].last_activity = E.now,
                               !.users[str(user_id)].stats.total_messages = @ + 1], E.fs)
         IN IF E.fs = "ok" THEN W1 ELSE [W1 EXCEPT !.users = W.users]
    ELSE W

\* update_user_activity counting the message as a saved word as well
update_user_activity_counts_word(W, user_id, E) ==
  IF str(user_id) \in DOMAIN W.users
    THEN save_users([W EXCEPT !.users[str(user_id)].last_activity = E.now,
                              !.users[str(user_id)].stats.total_messages = @ + 1,
                              !.users[str(user_id)].stats.words_saved = @ + 1], E.fs)
    ELSE W

update_user_activity(W, user_id, E) ==
  IF str(user_id) \in DOMAIN W.users
    THEN save_users([W EXCEPT !.users[str(user_id)].last_activity = E.now,
                              !.users[str(user_id)].stats.total_messages = @ + 1], E.fs)
    ELSE W

\* increment_stat taking a deleted hashtag off the count of created ones
increment_stat_uncounts_created(W, user_id, stat_name, E) ==
  IF str(user_id) \in DOMAIN W.users /\ stat_name \in DOMAIN W.users[str(user_id)].stats
    THEN save_users(
           [W EXCEPT !.users[str(user_id)].stats[stat_name] = @ + 1,
                     !.users[str(user_id)].stats.hashtags_created =
                        IF stat_name = "hashtags_deleted" THEN @ - 1 ELSE @],
           E.fs)
    ELSE W

\* increment_stat without the test of the name: a missing counter starts at 1
increment_stat_any_name(W, user_id, stat_name, E) ==
  IF str(user_id) \in DOMAIN W.users
    THEN save_users(
           [W EXCEPT !.users[str(user_id)].stats =
              IF stat_name \in DOMAIN @
                THEN [@ EXCEPT ![stat_name] = @ + 1]
                ELSE (stat_name :> 1) @@ @],
           E.fs)
    ELSE W

increment_stat(W, user_id, stat_name, E) ==
  IF str(user_id) \in DOMAIN W.users /\ stat_name \in DOMAIN W.users[str(user_id)].stats
    THEN save_users([W EXCEPT !.users[str(user_id)].stats[stat_name] = @ + 1], E.fs)
    ELSE W

\* the value delete_user returns
delete_user_returns(W, user_id) == str(user_id) \in DOMAIN W.users

delete_user(W, user_id, E) ==
  IF str(user_id) \in DOMAIN W.users
    THEN save_users(
           [W EXCEPT !.users = [k \in (DOMAIN @) \ {str(user_id)} |-> @[k]]], E.fs)
    ELSE W

-----------------------------------------------------------------------------
(* bot.py: registration helpers *)

\* user_manager.get_user(user_id) is not None
is_user_registered(W, user_id) == str(user_id) \in DOMAIN W.users

get_user_language(W, user_id) ==
  IF str(user_id) \in DOMAIN W.users THEN W.users[str(user_id)].language ELSE "en"

-----------------------------------------------------------------------------
(* bot.py: the RemoteClient functions.  A response is a record              *)
(* [exc, status_code, json]: exc is the exception requests raises ("none"   *)
(* when a response arrives), json the decoded body.  Each function returns  *)
(* [ok, message, code, data] for Python's (success, message-or-data).       *)

NoException == "none"

Result(ok, message, code, data) ==
  [ok |-> ok, message |-> message, code |-> code, data |-> data]

\* the except clauses shared by the client functions: ConnectionError, then Exception
client_except(resp) ==
  IF resp.exc = "ConnectionError"
    THEN Result(FALSE, "Website is not running", 0, <<>>)
    ELSE Result(FALSE, "Error: exception", 0, <<>>)

send_message_to_website(resp) ==
  IF resp.exc # NoException THEN client_except(resp)
  ELSE IF resp.status_code = 200 THEN Result(TRUE, "Message sent successfully!", 200, <<>>)
  ELSE Result(FALSE, "Error: status", resp.status_code, <<>>)

sync_user_to_backend(resp) ==
  IF resp.exc # NoException
    THEN (IF resp.exc = "ConnectionError"
            THEN Result(FALSE, "Backend not available", 0, <<>>)
            ELSE Result(FALSE, "Sync error", 0, <<>>))
  ELSE IF resp.status_code = 200 THEN Result(TRUE, "User synced successfully", 200, <<>>)
  ELSE Result(FALSE, "Backend sync failed", resp.status_code, <<>>)

\* create_hashtag taking 409 for success as well
create_hashtag_409_ok(resp) ==
  IF resp.exc # NoException THEN client_except(resp)
  ELSE IF resp.status_code \in {200, 409}
    THEN Result(TRUE, "Hashtag created successfully!", resp.status_code, <<>>)
  ELSE Result(FALSE, "Error: status", resp.status_code, <<>>)

create_hashtag(resp) ==
  IF resp.exc # NoException THEN client_except(resp)
  ELSE IF resp.status_code = 200 THEN Result(TRUE, "Hashtag created successfully!", 200, <<>>)
  ELSE IF resp.status_code = 409 THEN Result(FALSE, "Hashtag already exists!", 409, <<>>)
  ELSE Result(FALSE, "Error: status", resp.status_code, <<>>)

delete_hashtag(resp) ==
  IF resp.exc # NoException THEN client_except(resp)
  ELSE IF resp.status_code = 200 THEN Result(TRUE, "Hashtag deleted successfully!", 200, <<>>)
  ELSE IF resp.status_code = 404 THEN Result(FALSE, "Hashtag not found!", 404, <<>>)
  ELSE Result(FALSE, "Error: status", resp.status_code, <<>>)

get_hashtags(resp) ==
  IF resp.exc # NoException THEN client_except(resp)
  ELSE IF resp.status_code = 200 THEN Result(TRUE, "", 200, resp.json)
  ELSE Result(FALSE, "Error: status", resp.status_code, <<>>)

\* category_words without the filter
category_words_unfiltered(messages, category) == messages

\* [msg for msg in messages if msg.get('category') == category]
category_words(messages, category) ==
  SelectSeq(messages, LAMBDA msg : msg.category = category)

get_words_by_category(category, resp) ==
  IF resp.exc # NoException
    THEN (IF resp.exc = "ConnectionError"
            THEN Result(FALSE, "Website is not running", 0, <<>>)
          ELSE IF resp.exc = "Timeout"
            THEN Result(FALSE, "Request timed out", 0, <<>>)
          ELSE Result(FALSE, "Error: exception", 0, <<>>))
  ELSE IF resp.status_code = 200
    THEN Result(TRUE, "", 200, category_words(resp.json, category))
  ELSE Result(FALSE, "Error: status", resp.status_code, <<>>)

\* generate_pdf: the path of the rendered file, or None when rendering raised
generate_pdf(words, category_name, pdf) ==
  IF pdf = "render_error" THEN None ELSE "pdf_path"

-----------------------------------------------------------------------------
(* What a handler leaves behind for the observer: requests, replies, renders *)

Request(W, op, name, description, text, hashtags, user_id, username, resp) ==
  [W EXCEPT !.calls = Append(@,
     [op |-> op, name |-> name, description |-> description, text |-> text,
      hashtags |-> hashtags, user_id |-> user_id, username |-> username,
      exc |-> resp.exc, status_code |-> resp.status_code, json |-> resp.json])]

\* update.message.reply_text / reply_document
Reply(W, kind, lang, text, message, code) ==
  [W EXCEPT !.replies = Append(@,
     [kind |-> kind, lang |-> lang, text |-> text, message |-> message, code |-> code])]

ReplyError(W, lang, result) == Reply(W, "error", lang, <<>>, result.message, result.code)

Render(W, category_name, words) ==
  [W EXCEPT !.renders = Append(@, [category |-> category_name, words |-> words])]

NoFlags == [awaiting_hashtag_create |-> FALSE, awaiting_hashtag_delete |-> FALSE,
            awaiting_category_import |-> FALSE, awaiting_language |-> FALSE]

-----------------------------------------------------------------------------
(* bot.py: handle_create_hashtag *)

\* create_hashtag_input with the flag cleared only once the format is accepted
create_hashtag_input_reprompt(W, uid, text, lang, E) ==
  LET parts == split_space_1(text)
      hashtag_name == parts[1]
      description == IF Len(parts) > 1 THEN parts[2] ELSE <<>>
  IN IF ~startswith_hash(hashtag_name)
       THEN Reply(W, "hashtag_must_start", lang, <<>>, "", 0)
       ELSE LET W1 == [W EXCEPT !.user_data[uid].awaiting_hashtag_create = FALSE]
                result == create_hashtag(E.resp)
                W2 == Request(W1, "create_hashtag", hashtag_name, description,
                              <<>>, <<>>, "", "", E.resp)
            IN IF result.ok
                 THEN Reply(increment_stat(W2, uid, "hashtags_created", E),
                            "hashtag_created", lang, hashtag_name, "", 0)
                 ELSE ReplyError(W2, lang, result)

\* the branch taken in create mode (lines 254-287)
create_hashtag_input(W, uid, text, lang, E) ==
  LET W1 == [W EXCEPT !.user_data[uid].awaiting_hashtag_create = FALSE]
      parts == split_space_1(text)
      hashtag_name == parts[1]
      description == IF Len(parts) > 1 THEN parts[2] ELSE <<>>
  IN IF ~startswith_hash(hashtag_name)
       THEN Reply(W1, "hashtag_must_start", lang, <<>>, "", 0)
       ELSE LET result == create_hashtag(E.resp)
                W2 == Request(W1, "create_hashtag", hashtag_name, description,
                              <<>>, <<>>, "", "", E.resp)
            IN IF result.ok
                 THEN Reply(increment_stat(W2, uid, "hashtags_created", E),
                            "hashtag_created", lang, hashtag_name, "", 0)
                 ELSE ReplyError(W2, lang, result)

\* create_hashtag_prompt keeping the flag in a place all users share
create_hashtag_prompt_shared_flag(W, uid, lang) ==
  Reply([W EXCEPT !.user_data =
           [u \in DOMAIN @ |-> [@[u] EXCEPT !.awaiting_hashtag_create = TRUE]]],
        "create_hashtag_mode", lang, <<>>, "", 0)

\* the first-time branch (lines 288-300)
create_hashtag_prompt(W, uid, lang) ==
  Reply([W EXCEPT !.user_data[uid].awaiting_hashtag_create = TRUE],
        "create_hashtag_mode", lang, <<>>, "", 0)

handle_create_hashtag(W, uid, message_text, E) ==
  LET text == strip(message_text)
      lang == get_user_language(W, uid)
  IN IF W.user_data[uid].awaiting_hashtag_create
       THEN create_hashtag_input(W, uid, text, lang, E)
       ELSE create_hashtag_prompt(W, uid, lang)

-----------------------------------------------------------------------------
(* bot.py: handle_delete_hashtag *)

\* delete_hashtag_input with the flag cleared only when the deletion succeeded
delete_hashtag_input_clear_on_success(W, uid, text, lang, E) ==
  IF ~startswith_hash(text)
    THEN Reply([W EXCEPT !.user_data[uid].awaiting_hashtag_delete = FALSE],
               "hashtag_must_start", lang, <<>>, "", 0)
    ELSE LET result == delete_hashtag(E.resp)
             W2 == Request(W, "delete_hashtag", text, <<>>, <<>>, <<>>, "", "", E.resp)
         IN IF result.ok
              THEN Reply(increment_stat(
                           [W2 EXCEPT !.user_data[uid].awaiting_hashtag_delete = FALSE],
                           uid, "hashtags_deleted", E),
                         "hashtag_deleted", lang, text, "", 0)
              ELSE ReplyError(W2, lang, result)

\* the branch taken in delete mode (lines 310-337)
delete_hashtag_input(W, uid, text, lang, E) ==
  LET W1 == [W EXCEPT !.user_data[uid].awaiting_hashtag_delete = FALSE]
  IN IF ~startswith_hash(text)
       THEN Reply(W1, "hashtag_must_start", lang, <<>>, "", 0)
       ELSE LET result == delete_hashtag(E.resp)
                W2 == Request(W1, "delete_hashtag", text, <<>>, <<>>, <<>>, "", "", E.resp)
            IN IF result.ok
                 THEN Reply(increment_stat(W2, uid, "hashtags_deleted", E),
                            "hashtag_deleted", lang, text, "", 0)
                 ELSE ReplyError(W2, lang, result)

\* delete_hashtag_prompt entering delete mode only when there is a hashtag to delete
delete_hashtag_prompt_needs_hashtags(W, uid, lang, E) ==
  LET result == get_hashtags(E.resp)
      W1 == Request(W, "get_hashtags", <<>>, <<>>, <<>>, <<>>, "", "", E.resp)
  IN IF result.ok
       THEN (IF result.data # <<>>
               THEN Reply([W1 EXCEPT !.user_data[uid].awaiting_hashtag_delete = TRUE],
                          "delete_hashtag_mode", lang, <<>>, "", 0)
               ELSE Reply(W1, "no_hashtags_found", lang, <<>>, "", 0))
       ELSE [ReplyError(W1, lang, result)
               EXCEPT !.user_data[uid].awaiting_hashtag_delete = TRUE]

\* the first-time branch (lines 339-364): the flag is set whatever the fetch gave
delete_hashtag_prompt(W, uid, lang, E) ==
  LET result == get_hashtags(E.resp)
      W1 == Request(W, "get_hashtags", <<>>, <<>>, <<>>, <<>>, "", "", E.resp)
      W2 == IF result.ok
              THEN (IF result.data # <<>>
                      THEN Reply(W1, "delete_hashtag_mode", lang, <<>>, "", 0)
                      ELSE Reply(W1, "no_hashtags_found", lang, <<>>, "", 0))
              ELSE ReplyError(W1, lang, result)
  IN [W2 EXCEPT !.user_data[uid].awaiting_hashtag_delete = TRUE]

handle_delete_hashtag(W, uid, message_text, E) ==
  LET text == strip(message_text)
      lang == get_user_language(W, uid)
  IN IF W.user_data[uid].awaiting_hashtag_delete
       THEN delete_hashtag_input(W, uid, text, lang, E)
       ELSE delete_hashtag_prompt(W, uid, lang, E)

-----------------------------------------------------------------------------
(* bot.py: handle_import_list *)

\* lines 391-422: render the PDF, count it, send it
import_send_pdf(W, uid, text, lang, words, E) ==
  LET W1 == Render(W, text, words)
      pdf_path == generate_pdf(words, text, E.pdf)
  IN IF pdf_path # None
       THEN LET W2 == increment_stat(W1, uid, "pdfs_generated", E)
            IN IF E.pdf = "send_error"
                 THEN Reply(W2, "error_sending_pdf", lang, <<>>, "", 0)
                 ELSE Reply(W2, "document", lang, text, "", Len(words))
       ELSE Reply(W1, "error_generating_pdf", lang, <<>>, "", 0)

\* the branch taken in import mode (lines 374-432)
import_list_input(W, uid, text, lang, E) ==
  LET W1 == [W EXCEPT !.user_data[uid].awaiting_category_import = FALSE]
  IN IF ~startswith_hash(text)
       THEN Reply(W1, "category_must_start", lang, <<>>, "", 0)
       ELSE LET result == get_words_by_category(text, E.resp)
                W2 == Request(W1, "get_words_by_category", text, <<>>, <<>>, <<>>,
                              "", "", E.resp)
            IN IF result.ok
                 THEN (IF result.data # <<>>
                         THEN import_send_pdf(W2, uid, text, lang, result.data, E)
                         ELSE Reply(W2, "no_words_found", lang, text, "", 0))
                 ELSE ReplyError(W2, lang, result)

\* the first-time branch (lines 434-459)
import_list_prompt(W, uid, lang, E) ==
  LET result == get_hashtags(E.resp)
      W1 == Request(W, "get_hashtags", <<>>, <<>>, <<>>, <<>>, "", "", E.resp)
      W2 == IF result.ok
              THEN (IF result.data # <<>>
                      THEN Reply(W1, "import_list_mode", lang, <<>>, "", 0)
                      ELSE Reply(W1, "no_categories_found", lang, <<>>, "", 0))
              ELSE ReplyError(W1, lang, result)
  IN [W2 EXCEPT !.user_data[uid].awaiting_category_import = TRUE]

handle_import_list(W, uid, message_text, E) ==
  LET text == strip(message_text)
      lang == get_user_language(W, uid)
  IN IF W.user_data[uid].awaiting_category_import
       THEN import_list_input(W, uid, text, lang, E)
       ELSE import_list_prompt(W, uid, lang, E)

-----------------------------------------------------------------------------
(* bot.py: handle_language_selection *)

LangEnglish == {<<"1">>, <<"e", "n", "g", "l", "i", "s", "h">>, <<"e", "n">>,
  <<"cy_a", "cy_n", "cy_g", "cy_l", "cy_i", "cy_j", "cy_s", "cy_k", "cy_i", "cy_j">>}

LangRussian == {<<"2">>, <<"cy_r", "cy_u", "cy_s", "cy_s", "cy_k", "cy_i", "cy_j">>,
  <<"r", "u">>, <<"r", "u", "s", "s", "i", "a", "n">>}

LangUzbek == {<<"3">>,
  <<"cy_u", "cy_z", "cy_b", "cy_e", "cy_k", "cy_s", "cy_k", "cy_i", "cy_j">>,
  <<"u", "z">>, <<"u", "z", "b", "e", "k">>, <<"o", "'", "z", "b", "e", "k">>}

\* language_input comparing the text as typed, without lower()
language_input_case_sensitive(W, uid, text, E) ==
  LET W1 == [W EXCEPT !.user_data[uid].awaiting_language = FALSE]
      lang_choice == strip(text)
  IN IF lang_choice \in LangEnglish
       THEN Reply(update_user_language(W1, uid, "en", E),
                  "language_set_english", "en", <<>>, "", 0)
     ELSE IF lang_choice \in LangRussian
       THEN Reply(update_user_language(W1, uid, "ru", E),
                  "language_set_russian", "ru", <<>>, "", 0)
     ELSE IF lang_choice \in LangUzbek
       THEN Reply(update_user_language(W1, uid, "uz", E),
                  "language_set_uzbek", "uz", <<>>, "", 0)
     ELSE Reply(W1, "invalid_language_choice", "en/ru/uz", <<>>, "", 0)

\* language_input storing the name of the language instead of its code
language_input_stores_name(W, uid, text, E) ==
  LET W1 == [W EXCEPT !.user_data[uid].awaiting_language = FALSE]
      lang_choice == strip(lower(text))
  IN IF lang_choice \in LangEnglish
       THEN Reply(update_user_language(W1, uid, "english", E),
                  "language_set_english", "en", <<>>, "", 0)
     ELSE IF lang_choice \in LangRussian
       THEN Reply(update_user_language(W1, uid, "russian", E),
                  "language_set_russian", "ru", <<>>, "", 0)
     ELSE IF lang_choice \in LangUzbek
       THEN Reply(update_user_language(W1, uid, "uzbek", E),
                  "language_set_uzbek", "uz", <<>>, "", 0)
     ELSE Reply(W1, "invalid_language_choice", "en/ru/uz", <<>>, "", 0)

\* language_input leaving the flag set when the choice is not recognized
language_input_keep_pending(W, uid, text, E) ==
  LET W1 == [W EXCEPT !.user_data[uid].awaiting_language = FALSE]
      lang_choice == strip(lower(text))
  IN IF lang_choice \in LangEnglish
       THEN Reply(update_user_language(W1, uid, "en", E),
                  "language_set_english", "en", <<>>, "", 0)
     ELSE IF lang_choice \in LangRussian
       THEN Reply(update_user_language(W1, uid, "ru", E),
                  "language_set_russian", "ru", <<>>, "", 0)
     ELSE IF lang_choice \in LangUzbek
       THEN Reply(update_user_language(W1, uid, "uz", E),
                  "language_set_uzbek", "uz", <<>>, "", 0)
     ELSE Reply(W, "invalid_language_choice", "en/ru/uz", <<>>, "", 0)

\* the branch taken in language selection mode (lines 592-621)
language_input(W, uid, text, E) ==
  LET W1 == [W EXCEPT !.user_data[uid].awaiting_language = FALSE]
      lang_choice == strip(lower(text))
  IN IF lang_choice \in LangEnglish
       THEN Reply(update_user_language(W1, uid, "en", E),
                  "language_set_english", "en", <<>>, "", 0)
     ELSE IF lang_choice \in LangRussian
       THEN Reply(update_user_language(W1, uid, "ru", E),
                  "language_set_russian", "ru", <<>>, "", 0)
     ELSE IF lang_choice \in LangUzbek
       THEN Reply(update_user_language(W1, uid, "uz", E),
                  "language_set_uzbek", "uz", <<>>, "", 0)
     ELSE Reply(W1, "invalid_language_choice", "en/ru/uz", <<>>, "", 0)

\* the first-time branch (lines 623-634)
language_prompt(W, uid) ==
  Reply([W EXCEPT !.user_data[uid].awaiting_language = TRUE],
        "choose_language", "en/ru/uz", <<>>, "", 0)

handle_language_selection(W, uid, message_text, E) ==
  LET text == strip(message_text)
  IN IF ~is_user_registered(W, uid)
       THEN Reply(W, "profile_not_registered", "en", <<>>, "", 0)
       ELSE LET W1 == update_user_activity(W, uid, E)
            IN IF W1.user_data[uid].awaiting_language
                 THEN language_input(W1, uid, text, E)
                 ELSE language_prompt(W1, uid)

-----------------------------------------------------------------------------
(* bot.py: the commands *)

handle_open_website(W, uid) ==
  Reply(W, "website_link", get_user_language(W, uid), <<>>, "", 0)

\* register_command taking the registration back when the website did not accept the user
register_command_undo_on_failed_sync(W, uid, E) ==
  LET user == effective_user(uid)
  IN IF is_user_registered(W, uid)
       THEN Reply(W, "user_already_registered", get_user_language(W, uid), <<>>, "", 0)
       ELSE LET success == register_user_returns(W, uid)
                W1 == register_user(W, uid, user.username, user.first_name,
                                    user.last_name, E)
            IN IF success
                 THEN LET W2 == update_user_language(W1, uid, "en",
                                                     [E EXCEPT !.now = E.later])
                          sync == sync_user_to_backend(E.resp)
                          W3 == Request(W2, "sync_user_to_backend", <<>>, <<>>, <<>>, <<>>,
                                        str(uid), W2.users[str(uid)].username, E.resp)
                      IN IF sync.ok
                           THEN Reply(W3, "registration_successful", "en", <<>>,
                                      "user_synced_backend", 0)
                           ELSE Reply(delete_user(W3, uid, E), "registration_failed", "en",
                                      <<>>, "", 0)
                 ELSE Reply(W1, "registration_failed", "en", <<>>, "", 0)

register_command(W, uid, E) ==
  LET user == effective_user(uid)
  IN IF is_user_registered(W, uid)
       THEN Reply(W, "user_already_registered", get_user_language(W, uid), <<>>, "", 0)
       ELSE LET success == register_user_returns(W, uid)
                W1 == register_user(W, uid, user.username, user.first_name,
                                    user.last_name, E)
            IN IF success
                 THEN LET W2 == update_user_language(W1, uid, "en",
                                                     [E EXCEPT !.now = E.later])
                          sync == sync_user_to_backend(E.resp)
                          W3 == Request(W2, "sync_user_to_backend", <<>>, <<>>, <<>>, <<>>,
                                        str(uid), W2.users[str(uid)].username, E.resp)
                      IN Reply(W3, "registration_successful", "en", <<>>,
                               IF sync.ok THEN "user_synced_backend" ELSE "user_sync_failed", 0)
                 ELSE Reply(W1, "registration_failed", "en", <<>>, "", 0)

profile_command(W, uid) ==
  IF ~is_user_registered(W, uid)
    THEN Reply(W, "profile_not_registered", get_user_language(W, uid), <<>>, "", 0)
    ELSE Reply(W, "profile", W.users[str(uid)].language, <<>>, "",
               W.users[str(uid)].stats.total_messages)

start(W, uid, E) ==
  IF ~is_user_registered(W, uid)
    THEN Reply(W, "welcome_new_user", "en", <<>>, "", 0)
    ELSE LET lang == get_user_language(W, uid)
         IN Reply(update_user_activity(W, uid, E), "welcome", lang, <<>>, "", 0)

help_command(W, uid, E) ==
  IF ~is_user_registered(W, uid)
    THEN Reply(W, "profile_not_registered", "en", <<>>, "", 0)
    ELSE LET lang == get_user_language(W, uid)
         IN Reply(update_user_activity(W, uid, E), "help", lang, <<>>, "", 0)

-----------------------------------------------------------------------------
(* bot.py: handle_message *)

\* save_note counting the word before the outcome of the request is known
save_note_counts_failures(W, uid, text, lang, E) ==
  LET user == effective_user(uid)
      hashtags == hashtags_of(text)
      result == send_message_to_website(E.resp)
      W1 == increment_stat(
              Request(W, "send_message_to_website", <<>>, <<>>, text, hashtags, str(uid),
                      IF user.username # None THEN user.username ELSE user.first_name,
                      E.resp),
              uid, "words_saved", E)
  IN IF result.ok
       THEN Reply(W1, "word_saved", lang, hashtags[1], "", 0)
       ELSE ReplyError(W1, lang, result)

\* lines 763-790: a message with hashtags is sent to the website
save_note(W, uid, text, lang, E) ==
  LET user == effective_user(uid)
      hashtags == hashtags_of(text)
      result == send_message_to_website(E.resp)
      W1 == Request(W, "send_message_to_website", <<>>, <<>>, text, hashtags, str(uid),
                    IF user.username # None THEN user.username ELSE user.first_name,
                    E.resp)
  IN IF result.ok
       THEN Reply(increment_stat(W1, uid, "words_saved", E),
                  "word_saved", lang, hashtags[1], "", 0)
       ELSE ReplyError(W1, lang, result)

\* lines 792-815: the menu buttons, compared in the user's language
menu_dispatch(W, uid, message_text, lang, E) ==
  LET lower_text == lower(strip(message_text))
  IN IF lower_text = lower(get_text("help", lang)) THEN help_command(W, uid, E)
     ELSE IF lower_text = lower(get_text("create_hashtag", lang))
       THEN handle_create_hashtag(W, uid, message_text, E)
     ELSE IF lower_text = lower(get_text("delete_hashtag", lang))
       THEN handle_delete_hashtag(W, uid, message_text, E)
     ELSE IF lower_text = lower(get_text("import_list", lang))
       THEN handle_import_list(W, uid, message_text, E)
     ELSE IF lower_text = lower(get_text("language_button", lang))
       THEN handle_language_selection(W, uid, message_text, E)
     ELSE IF lower_text = lower(get_text("open_website", lang))
       THEN handle_open_website(W, uid)
     ELSE IF lower_text = lower(get_text("profile", lang)) THEN profile_command(W, uid)
     ELSE IF lower_text = lower(get_text("register", lang)) THEN register_command(W, uid, E)
     ELSE Reply(W, "send_hashtag_message", lang, <<>>, "", 0)

\* dispatch_idle with the menu labels compared before the hashtags are looked for
dispatch_idle_menu_first(W, uid, message_text, lang, E) ==
  IF \E k \in MenuKeys : lower(strip(message_text)) = lower(get_text(k, lang))
    THEN menu_dispatch(W, uid, message_text, lang, E)
  ELSE IF hashtags_of(strip(message_text)) # <<>>
    THEN save_note(W, uid, strip(message_text), lang, E)
  ELSE menu_dispatch(W, uid, message_text, lang, E)

\* lines 763-815: no flow is pending
dispatch_idle(W, uid, message_text, lang, E) ==
  IF hashtags_of(strip(message_text)) # <<>>
    THEN save_note(W, uid, strip(message_text), lang, E)
    ELSE menu_dispatch(W, uid, message_text, lang, E)

\* dispatch_registered without the check of import mode
dispatch_registered_no_import_check(W, uid, message_text, lang, E) ==
  IF W.user_data[uid].awaiting_hashtag_create
    THEN handle_create_hashtag(W, uid, message_text, E)
  ELSE IF W.user_data[uid].awaiting_hashtag_delete
    THEN handle_delete_hashtag(W, uid, message_text, E)
  ELSE IF W.user_data[uid].awaiting_language
    THEN handle_language_selection(W, uid, message_text, E)
  ELSE dispatch_idle(W, uid, message_text, lang, E)

\* dispatch_registered with the hashtags looked for before the pending flows
dispatch_registered_note_first(W, uid, message_text, lang, E) ==
  IF hashtags_of(strip(message_text)) # <<>>
    THEN save_note(W, uid, strip(message_text), lang, E)
  ELSE IF W.user_data[uid].awaiting_hashtag_create
    THEN handle_create_hashtag(W, uid, message_text, E)
  ELSE IF W.user_data[uid].awaiting_hashtag_delete
    THEN handle_delete_hashtag(W, uid, message_text, E)
  ELSE IF W.user_data[uid].awaiting_category_import
    THEN handle_import_list(W, uid, message_text, E)
  ELSE IF W.user_data[uid].awaiting_language
    THEN handle_language_selection(W, uid, message_text, E)
  ELSE menu_dispatch(W, uid, message_text, lang, E)

\* lines 743-761: a pending flow takes the message
dispatch_registered(W, uid, message_text, lang, E) ==
  IF W.user_data[uid].awaiting_hashtag_create
    THEN handle_create_hashtag(W, uid, message_text, E)
  ELSE IF W.user_data[uid].awaiting_hashtag_delete
    THEN handle_delete_hashtag(W, uid, message_text, E)
  ELSE IF W.user_data[uid].awaiting_category_import
    THEN handle_import_list(W, uid, message_text, E)
  ELSE IF W.user_data[uid].awaiting_language
    THEN handle_language_selection(W, uid, message_text, E)
  ELSE dispatch_idle(W, uid, message_text, lang, E)

\* dispatch_unregistered letting the create label through to its handler
dispatch_unregistered_opens_menu(W, uid, message_text, E) ==
  IF lower(strip(message_text)) = lower(get_text("register", "en"))
    THEN register_command(W, uid, E)
  ELSE IF lower(strip(message_text)) = lower(get_text("create_hashtag", "en"))
    THEN handle_create_hashtag(W, uid, message_text, E)
  ELSE Reply(W, "profile_not_registered", "en", <<>>, "", 0)

\* lines 724-735: the registration gate
dispatch_unregistered(W, uid, message_text, E) ==
  IF lower(strip(message_text)) = lower(get_text("register", "en"))
    THEN register_command(W, uid, E)
    ELSE Reply(W, "profile_not_registered", "en", <<>>, "", 0)

\* handle_message without the registration gate
handle_message_no_gate(W, uid, message_text, E) ==
  dispatch_registered(update_user_activity(W, uid, E), uid, message_text,
                      get_user_language(W, uid), E)

handle_message(W, uid, message_text, E) ==
  IF ~is_user_registered(W, uid)
    THEN dispatch_unregistered(W, uid, message_text, E)
    ELSE LET lang == get_user_language(W, uid)
         IN dispatch_registered(update_user_activity(W, uid, E), uid, message_text, lang, E)

-----------------------------------------------------------------------------
(* The environment: the texts users send and the answers of the website *)

TagW == <<"#", "w">>
TagV == <<"#", "v">>

MessageTexts ==
  {get_text(k, "en") : k \in MenuKeys}
  \cup {<<"R", "E", "G", "I", "S", "T", "E", "R">>,
        <<"h", "i">>,
        TagW,
        <<"#", "w", " ", "h", "i">>,
        <<"h", "i", " ", "#", "w", " ", "#", "v">>,
        <<" ", "#", "w", "\t", "h", "i", " ">>,
        <<"2">>, <<"3">>,
        <<"E", "N">>,
        <<"CY_R", "cy_u", "cy_s", "cy_s", "cy_k", "cy_i", "cy_j">>}

NoResponse == [exc |-> NoException, status_code |-> 0, json |-> <<>>]

Failures ==
  {[exc |-> NoException, status_code |-> c, json |-> <<>>] : c \in {201, 404, 409}}
  \cup {[exc |-> "ConnectionError", status_code |-> 0, json |-> <<>>]}

TimedOut == [exc |-> "Timeout", status_code |-> 0, json |-> <<>>]

Ok(body) == [exc |-> NoException, status_code |-> 200, json |-> body]

HashtagLists == {<<>>, <<[name |-> TagW, description |-> <<>>]>>}

MessageLists ==
  {<<>>,
   <<[text |-> <<"h", "i", " ", "#", "v">>, category |-> TagV]>>,
   <<[text |-> <<"h", "i", " ", "#", "v">>, category |-> TagV],
     [text |-> <<"y", "o", " ", "#", "w">>, category |-> TagW]>>}

\* the responses the website can give to a request
ResponsesTo(op) ==
  CASE op = "none" -> {NoResponse}
    [] op = "get_hashtags" -> {Ok(b) : b \in HashtagLists} \cup Failures
    [] op = "get_words_by_category" ->
         {Ok(b) : b \in MessageLists} \cup Failures \cup {TimedOut}
    [] OTHER -> {Ok(<<>>)} \cup Failures

PdfOutcomes(op) ==
  IF op = "get_words_by_category" THEN {"ok", "render_error", "send_error"} ELSE {"ok"}

FsOutcomes == {"ok", "open_error", "write_error"}

-----------------------------------------------------------------------------
(* State machine *)

RECURSIVE SumMessages(_, _)
SumMessages(us, keys) ==
  IF keys = {} THEN 0
  ELSE LET k == CHOOSE x \in keys : TRUE
       IN us[k].stats.total_messages + SumMessages(us, keys \ {k})

TotalMessages == SumMessages(users, DOMAIN users)

\* no direct call of the store was counted for any user
NoCalls == [u \in UserIds |-> [touch |-> 0, inc |-> [n \in StatNames |-> 0]]]

\* run_polling waits for the next update
Idle == [kind |-> "idle", uid |-> 0, text |-> <<>>, users |-> <<>>,
         user_data |-> [u \in UserIds |-> NoFlags], args |-> <<>>, ret |-> None,
         disk |-> NoFile, input |-> <<>>]

\* the program state a handler starts from; the observer's logs start empty
World == [users |-> users, disk |-> disk, user_data |-> user_data,
          calls |-> <<>>, replies |-> <<>>, renders |-> <<>>]

Event(kind, uid, text, E) ==
  [kind |-> kind, uid |-> uid, text |-> text, users |-> users, user_data |-> user_data,
   args |-> <<>>, ret |-> None, disk |-> disk, input |-> E]

\* the records of the last write that succeeded, after an operation that
\* left the file as W.disk
LastStored(W) ==
  IF W.disk # disk /\ W.disk.state = "json" THEN W.disk.data ELSE stored

Commit(W, e, t) ==
  /\ users' = W.users
  /\ disk' = W.disk
  /\ stored' = LastStored(W)
  /\ user_data' = W.user_data
  /\ calls' = W.calls
  /\ replies' = W.replies
  /\ renders' = W.renders
  /\ ev' = e
  /\ now' = t

\* The environment of a specification: its bounds on the counters, the clock
\* and the failing writes
ReliableDisk == [messages |-> MaxMessages, clock |-> MaxClock, faults |-> 0]
FaultyDisk == [messages |-> MaxFaultyMessages, clock |-> MaxFaultyClock, faults |-> MaxFaults]

\* the handlers main() registers with the application
Handler(kind, W, uid, text, E) ==
  CASE kind = "message" -> handle_message(W, uid, text, E)
    [] kind = "start" -> start(W, uid, E)
    [] kind = "help" -> help_command(W, uid, E)
    [] kind = "register" -> register_command(W, uid, E)
    [] kind = "profile" -> profile_command(W, uid)

\* One inbound update handled to completion by its handler H.  The request the
\* handler makes does not depend on the response, so a first evaluation with
\* no response tells which responses, file-system outcomes and clock readings
\* are inputs of this update.
Run(kind, uid, text, env) ==
  /\ ev = Idle
  /\ TotalMessages < env.messages
  /\ LET H(E) == Handler(kind, World, uid, text, E)
         probe == H([now |-> now, later |-> now, fs |-> "ok", resp |-> NoResponse,
                     pdf |-> "ok"])
         op == IF probe.calls = <<>> THEN "none" ELSE probe.calls[1].op
         writes == probe.users # users
         registers == DOMAIN probe.users # DOMAIN users
     IN \E t \in (IF writes THEN {now, now + 1} \cap (0..env.clock) ELSE {now}),
           fs \in (IF writes /\ faults < env.faults THEN FsOutcomes ELSE {"ok"}),
           resp \in ResponsesTo(op),
           pdf \in PdfOutcomes(op) :
          \E t_later \in (IF registers THEN {t, t + 1} \cap (0..env.clock) ELSE {t}) :
            /\ Commit(H([now |-> t, later |-> t_later, fs |-> fs, resp |-> resp,
                         pdf |-> pdf]),
                      Event(kind, uid, text,
                            [now |-> t, later |-> t_later, fs |-> fs, resp |-> resp,
                             pdf |-> pdf]),
                      t_later)
            /\ faults' = IF fs = "ok" THEN faults ELSE faults + 1
            /\ UNCHANGED tally

\* an update handled with no other handler waiting for the website
Handle(kind, uid, text, env) ==
  /\ Run(kind, uid, text, env)
  /\ UNCHANGED inflight

\* MessageHandler(filters.TEXT & ~filters.COMMAND, handle_message)
Message(uid, text, env) ==
  Handle("message", uid, text, env)

\* CommandHandler("start", start)
StartCommand(uid, env) == Handle("start", uid, <<>>, env)

\* CommandHandler("help", help_command)
HelpCommand(uid, env) == Handle("help", uid, <<>>, env)

\* CommandHandler("register", register_command)
RegisterCommand(uid, env) == Handle("register", uid, <<>>, env)

\* CommandHandler("profile", profile_command)
ProfileCommand(uid, env) == Handle("profile", uid, <<>>, env)

\* an Application built with a persistence keeps context.user_data over a restart
application_user_data_persisted(previous) == previous

\* Application.builder().token(TOKEN).build(): no persistence is configured, so
\* the context.user_data of every user starts empty
application_user_data(previous) == [u \in UserIds |-> NoFlags]

\* the process is stopped and started again: users.json is read, the
\* context.user_data of every user is empty
Restart ==
  /\ ev = Idle
  /\ users' = load_users(disk)
  /\ user_data' = application_user_data(user_data)
  /\ ev' = [kind |-> "restart", uid |-> 0, text |-> <<>>, users |-> users,
            user_data |-> user_data, args |-> <<>>, ret |-> None,
            disk |-> disk, input |-> <<>>]
  /\ calls' = <<>>
  /\ replies' = <<>>
  /\ renders' = <<>>
  /\ inflight' = {}
  /\ UNCHANGED <<disk, now, faults, tally, stored>>

\* the handler has returned: run_polling takes the next update
NextUpdate ==
  /\ ev # Idle
  /\ ev' = Idle
  /\ calls' = <<>>
  /\ replies' = <<>>
  /\ renders' = <<>>
  /\ UNCHANGED <<users, disk, user_data, now, faults, tally, inflight, stored>>

Init ==
  /\ disk = NoFile
  /\ users = load_users(NoFile)
  /\ user_data = [u \in UserIds |-> NoFlags]
  /\ now = 0
  /\ faults = 0
  /\ tally = NoCalls
  /\ inflight = {}
  /\ stored = load_users(NoFile)
  /\ ev = Idle
  /\ calls = <<>>
  /\ replies = <<>>
  /\ renders = <<>>

Next ==
  \/ \E uid \in UserIds, text \in MessageTexts : Message(uid, text, ReliableDisk)
  \/ \E uid \in UserIds : StartCommand(uid, ReliableDisk)
  \/ \E uid \in UserIds : HelpCommand(uid, ReliableDisk)
  \/ \E uid \in UserIds : RegisterCommand(uid, ReliableDisk)
  \/ \E uid \in UserIds : ProfileCommand(uid, ReliableDisk)
  \/ Restart
  \/ NextUpdate

\* the dispatcher over a file system that always writes users.json
Spec == Init /\ [][Next]_vars

\* the texts sent over the failing file system: one for each call of the store
\* a message can lead to (register_user, update_user_activity,
\* update_user_language, increment_stat)
FaultyMessageTexts ==
  {get_text("register", "en"), get_text("language_button", "en"), <<"2">>,
   <<"h", "i">>, <<"#", "w", " ", "h", "i">>}

NextFaulty ==
  \/ \E uid \in UserIds, text \in FaultyMessageTexts : Message(uid, text, FaultyDisk)
  \/ \E uid \in UserIds : StartCommand(uid, FaultyDisk)
  \/ \E uid \in UserIds : HelpCommand(uid, FaultyDisk)
  \/ \E uid \in UserIds : RegisterCommand(uid, FaultyDisk)
  \/ \E uid \in UserIds : ProfileCommand(uid, FaultyDisk)
  \/ Restart
  \/ NextUpdate

\* the dispatcher over a file system whose writes may fail
SpecFaulty == Init /\ [][NextFaulty]_vars

-----------------------------------------------------------------------------
(* The handlers seen with their wait for the website.  A handler that makes *)
(* a request is in flight from the moment the request is sent until the     *)
(* response is there; the requests are calls of the blocking requests       *)
(* library inside the coroutine, and the Application handles one update at  *)
(* a time, so nothing else runs in between and the effects of the handler   *)
(* are those of Run at the moment the response arrives.                     *)

WireEnv == [messages |-> MaxWireMessages, clock |-> 0, faults |-> 0]

\* the handler of this update sends a request to the website
MakesRequest(kind, uid, text) ==
  Handler(kind, World, uid, text,
          [now |-> now, later |-> now, fs |-> "ok", resp |-> NoResponse,
           pdf |-> "ok"]).calls # <<>>

\* an Application built with concurrent_updates and an asynchronous HTTP client
\* takes the update of a user while handlers of other users wait
may_begin_other_users(waiting, uid) == \A w \in waiting : w.uid # uid

\* whether the update of a user can be taken while these handlers wait:
\* requests.post / get / delete block the event loop and the Application is
\* built without concurrent_updates
may_begin(waiting, uid) == waiting = {}

\* an update whose handler makes no request
HandleLocal(kind, uid, text) ==
  /\ ~MakesRequest(kind, uid, text)
  /\ may_begin(inflight, uid)
  /\ Run(kind, uid, text, WireEnv)
  /\ UNCHANGED inflight

\* the handler of an update sends its request
BeginUpdate(kind, uid, text) ==
  /\ ev = Idle
  /\ TotalMessages < WireEnv.messages
  /\ MakesRequest(kind, uid, text)
  /\ may_begin(inflight, uid)
  /\ inflight' = inflight \cup {[kind |-> kind, uid |-> uid, text |-> text]}
  /\ UNCHANGED <<users, disk, user_data, now, ev, calls, replies, renders, faults, tally,
                 stored>>

\* the response is there and the handler runs to its end
CompleteUpdate(w) ==
  /\ w \in inflight
  /\ Run(w.kind, w.uid, w.text, WireEnv)
  /\ inflight' = inflight \ {w}

NextWire ==
  \/ \E uid \in UserIds, text \in MessageTexts : HandleLocal("message", uid, text)
  \/ \E uid \in UserIds, kind \in {"start", "help", "register", "profile"} :
       HandleLocal(kind, uid, <<>>)
  \/ \E uid \in UserIds, text \in MessageTexts : BeginUpdate("message", uid, text)
  \/ \E uid \in UserIds : BeginUpdate("register", uid, <<>>)
  \/ \E w \in inflight : CompleteUpdate(w)
  \/ Restart
  \/ NextUpdate

\* the dispatcher with the wait of each handler for the website made visible
SpecWire == Init /\ [][NextWire]_vars

-----------------------------------------------------------------------------
(* The UserManager called directly, with any arguments: the interface of    *)
(* users.py as a caller other than the dispatcher may use it.               *)

\* username, first_name, last_name of a register_user call
NameArgs ==
  {[username |-> "alice", first_name |-> "Alice", last_name |-> None],
   [username |-> None, first_name |-> "Bob", last_name |-> "B"]}

\* stat_name of an increment_stat call: three of the counters and two names
\* that are no counter (one of them a key of the record, not of its stats)
StatArgs == {"words_saved", "hashtags_deleted", "total_messages", "language", "bogus"}

\* language of an update_user_language call
LanguageArgs == {"en", "ru"}

RECURSIVE SumTally(_)
SumTally(us) ==
  IF us = {} THEN 0
  ELSE LET u == CHOOSE x \in us : TRUE
       IN tally[u].touch
          + tally[u].inc["words_saved"] + tally[u].inc["hashtags_created"]
          + tally[u].inc["hashtags_deleted"] + tally[u].inc["pdfs_generated"]
          + tally[u].inc["total_messages"]
          + SumTally(us \ {u})

CountedCalls == SumTally(UserIds)

\* The environment of a specification of the store: its bounds on the counted
\* calls, the clock and the failing writes
ReliableStore == [calls |-> MaxStoreCalls, clock |-> MaxStoreClock, faults |-> 0]
FaultyStore == [calls |-> MaxFaultyStoreCalls, clock |-> MaxFaultyStoreClock,
                faults |-> MaxStoreFaults]

\* the inputs of a direct call
StoreInput(t, t_later, fs) ==
  [now |-> t, later |-> t_later, fs |-> fs, resp |-> NoResponse, pdf |-> "ok"]

\* the clock is read, and users.json written, only by a call that changes a record
StoreClock(writes, env) ==
  IF writes THEN {now, now + 1} \cap (0..env.clock) ELSE {now}

StoreFs(writes, env) ==
  IF writes /\ faults < env.faults THEN FsOutcomes ELSE {"ok"}

\* one call of a method of user_manager has returned
StoreCommit(kind, uid, args, W, ret, E) ==
  /\ users' = W.users
  /\ disk' = W.disk
  /\ stored' = LastStored(W)
  /\ ev' = [kind |-> kind, uid |-> uid, text |-> <<>>, users |-> users,
            user_data |-> user_data, args |-> args, ret |-> ret,
            disk |-> disk, input |-> E]
  /\ now' = E.later
  /\ faults' = IF E.fs = "ok" THEN faults ELSE faults + 1
  /\ UNCHANGED <<user_data, calls, replies, renders, inflight>>

\* user_manager.register_user(uid, ...)
RegisterUser(uid, names, env) ==
  /\ ev = Idle
  /\ CountedCalls < env.calls
  /\ LET writes == register_user_returns(World, uid)
     IN \E t \in StoreClock(writes, env), fs \in StoreFs(writes, env) :
          \E t_later \in StoreClock(writes, env) :
            /\ t_later >= t
            /\ StoreCommit("register_user", uid, names,
                           register_user(World, uid, names.username, names.first_name,
                                         names.last_name, StoreInput(t, t_later, fs)),
                           register_user_returns(World, uid), StoreInput(t, t_later, fs))
  /\ UNCHANGED tally

\* user_manager.update_user_language(uid, language)
UpdateUserLanguage(uid, language, env) ==
  /\ ev = Idle
  /\ CountedCalls < env.calls
  /\ LET writes == str(uid) \in DOMAIN users
     IN \E t \in StoreClock(writes, env), fs \in StoreFs(writes, env) :
          StoreCommit("update_user_language", uid, language,
                      update_user_language(World, uid, language, StoreInput(t, t, fs)),
                      None, StoreInput(t, t, fs))
  /\ UNCHANGED tally

\* user_manager.update_user_activity(uid)
UpdateUserActivity(uid, env) ==
  /\ ev = Idle
  /\ CountedCalls < env.calls
  /\ LET writes == str(uid) \in DOMAIN users
     IN \E t \in StoreClock(writes, env), fs \in StoreFs(writes, env) :
          StoreCommit("update_user_activity", uid, <<>>,
                      update_user_activity(World, uid, StoreInput(t, t, fs)),
                      None, StoreInput(t, t, fs))
  /\ tally' = IF str(uid) \in DOMAIN users
                THEN [tally EXCEPT ![uid].touch = @ + 1] ELSE tally

\* user_manager.increment_stat(uid, stat_name)
IncrementStat(uid, stat_name, env) ==
  /\ ev = Idle
  /\ CountedCalls < env.calls
  /\ LET writes == str(uid) \in DOMAIN users /\ stat_name \in StatNames
     IN \E fs \in StoreFs(writes, env) :
          StoreCommit("increment_stat", uid, stat_name,
                      increment_stat(World, uid, stat_name, StoreInput(now, now, fs)),
                      None, StoreInput(now, now, fs))
  /\ tally' = IF str(uid) \in DOMAIN users /\ stat_name \in StatNames
                THEN [tally EXCEPT ![uid].inc[stat_name] = @ + 1] ELSE tally

\* user_manager.delete_user(uid): the counting of calls starts again
DeleteUser(uid, env) ==
  /\ ev = Idle
  /\ LET writes == str(uid) \in DOMAIN users
     IN \E fs \in StoreFs(writes, env) :
          StoreCommit("delete_user", uid, <<>>,
                      delete_user(World, uid, StoreInput(now, now, fs)),
                      delete_user_returns(World, uid), StoreInput(now, now, fs))
  /\ tally' = [tally EXCEPT ![uid] = NoCalls[uid]]

NextStore ==
  \/ \E uid \in UserIds, names \in NameArgs : RegisterUser(uid, names, ReliableStore)
  \/ \E uid \in UserIds, language \in LanguageArgs :
       UpdateUserLanguage(uid, language, ReliableStore)
  \/ \E uid \in UserIds : UpdateUserActivity(uid, ReliableStore)
  \/ \E uid \in UserIds, stat_name \in StatArgs : IncrementStat(uid, stat_name, ReliableStore)
  \/ \E uid \in UserIds : DeleteUser(uid, ReliableStore)
  \/ Restart
  \/ NextUpdate

\* the store under direct calls, over a file system that always writes users.json
SpecStore == Init /\ [][NextStore]_vars

\* the arguments of the calls made over the failing file system: what save_users
\* does with a write does not depend on the names, the counter or the language
FaultyNameArgs == {[username |-> "alice", first_name |-> "Alice", last_name |-> None]}
FaultyStatArgs == {"words_saved", "bogus"}
FaultyLanguageArgs == {"ru"}

NextStoreFaulty ==
  \/ \E uid \in UserIds, names \in FaultyNameArgs : RegisterUser(uid, names, FaultyStore)
  \/ \E uid \in UserIds, language \in FaultyLanguageArgs :
       UpdateUserLanguage(uid, language, FaultyStore)
  \/ \E uid \in UserIds : UpdateUserActivity(uid, FaultyStore)
  \/ \E uid \in UserIds, stat_name \in FaultyStatArgs :
       IncrementStat(uid, stat_name, FaultyStore)
  \/ \E uid \in UserIds : DeleteUser(uid, FaultyStore)
  \/ Restart
  \/ NextUpdate

\* the store under direct calls, over a file system whose writes may fail
SpecStoreFaulty == Init /\ [][NextStoreFaulty]_vars

-----------------------------------------------------------------------------
(* Vocabulary of the properties: the update just handled and its effect *)

FlagNames == {"awaiting_hashtag_create", "awaiting_hashtag_delete",
              "awaiting_category_import", "awaiting_language"}

PendingFlags(flags) == {f \in FlagNames : flags[f]}

\* a text message was just handled; its sender and the sender's record key
MessageHandled == ev.kind = "message"
SenderKey == str(ev.uid)
WasRegistered == SenderKey \in DOMAIN ev.users
WasPending == PendingFlags(ev.user_data[ev.uid])
SentText == strip(ev.text)

\* a text message of a registered user was just handled
RegisteredMessage == MessageHandled /\ WasRegistered

StatBefore(name) == ev.users[SenderKey].stats[name]
StatAfter(name) == users[SenderKey].stats[name]

RequestOps == {calls[i].op : i \in 1..Len(calls)}
ReplyKinds == {replies[i].kind : i \in 1..Len(replies)}

\* the request got the answer the client functions take for success
Succeeded(call) == call.exc = NoException /\ call.status_code = 200

\* the text is a menu-button label in the language the sender had
IsMenuLabel(text, lang) == \E k \in MenuKeys : lower(text) = lower(get_text(k, lang))

\* the replies that start or perform a menu action
MenuReplies == {"help", "create_hashtag_mode", "delete_hashtag_mode", "no_hashtags_found",
                "import_list_mode", "no_categories_found", "choose_language",
                "website_link", "profile", "user_already_registered",
                "registration_successful", "send_hashtag_message"}

\* the words of a text that carry the marker, by position
MarkerPositions(text) == {i \in 1..Len(split(text)) : split(text)[i][1] = "#"}
FirstMarkerToken(text) ==
  split(text)[CHOOSE i \in MarkerPositions(text) : \A j \in MarkerPositions(text) : i <= j]

-----------------------------------------------------------------------------
(* C1: in every reachable state each user has at most one of the four       *)
(* awaiting_* flags set.                                                    *)
C1_AtMostOneFlag == \A u \in UserIds : Cardinality(PendingFlags(user_data[u])) <= 1

\* two users are in two different flows at the same time
C1_Witness ==
  /\ user_data[1].awaiting_language
  /\ user_data[2].awaiting_hashtag_delete

(* C2: a pending flow of a registered user takes the next text message as   *)
(* its input whatever the text is: only that flow's request is made, only   *)
(* that flow's replies are sent, no menu action starts, nothing is posted   *)
(* as a note and words_saved keeps its value.                               *)
FlowOps(flag) ==
  CASE flag = "awaiting_hashtag_create" -> {"create_hashtag"}
    [] flag = "awaiting_hashtag_delete" -> {"delete_hashtag"}
    [] flag = "awaiting_category_import" -> {"get_words_by_category"}
    [] flag = "awaiting_language" -> {}

FlowReplies(flag) ==
  CASE flag = "awaiting_hashtag_create" -> {"hashtag_must_start", "hashtag_created", "error"}
    [] flag = "awaiting_hashtag_delete" -> {"hashtag_must_start", "hashtag_deleted", "error"}
    [] flag = "awaiting_category_import" ->
         {"category_must_start", "no_words_found", "document", "error_sending_pdf",
          "error_generating_pdf", "error"}
    [] flag = "awaiting_language" ->
         {"language_set_english", "language_set_russian", "language_set_uzbek",
          "invalid_language_choice"}

C2_FlowTakesMessage ==
  RegisteredMessage =>
    \A flag \in WasPending :
      /\ RequestOps \subseteq FlowOps(flag)
      /\ Len(replies) = 1
      /\ ReplyKinds \subseteq FlowReplies(flag)
      /\ ReplyKinds \cap MenuReplies = {}
      /\ PendingFlags(user_data[ev.uid]) \subseteq {flag}
      /\ StatAfter("words_saved") = StatBefore("words_saved")

\* in create mode the user sent a menu label that also contains a marker token
C2_Witness ==
  /\ RegisteredMessage
  /\ WasPending = {"awaiting_hashtag_create"}
  /\ IsMenuLabel(SentText, ev.users[SenderKey].language)
  /\ hashtags_of(SentText) # <<>>
  /\ ReplyKinds = {"hashtag_must_start"}

(* C3: a text message of an unregistered user that is not the register      *)
(* label is answered "must register" and has no other effect: no request,   *)
(* no render, no record created or changed, no flag set.                    *)
C3_UnregisteredGate ==
  (MessageHandled /\ ~WasRegistered
     /\ lower(SentText) # lower(get_text("register", "en"))) =>
    /\ calls = <<>>
    /\ renders = <<>>
    /\ ReplyKinds = {"profile_not_registered"} /\ Len(replies) = 1
    /\ users = ev.users
    /\ user_data = ev.user_data
    /\ user_data[ev.uid] = NoFlags

\* an unregistered user sent a tagged note
C3_Witness ==
  /\ MessageHandled /\ ~WasRegistered
  /\ hashtags_of(SentText) # <<>>
  /\ ~IsMenuLabel(SentText, "en")
  /\ ReplyKinds = {"profile_not_registered"}

(* C4: a registered user with no pending flow sends a text with a marker    *)
(* token: exactly one request, send_message_to_website, carrying the text   *)
(* and its marker tokens with the first one first; words_saved grows by 1   *)
(* and the reply names the first marker token if the request succeeded,     *)
(* words_saved keeps its value if it failed; no flag is set.                *)
C4_TaggedNote ==
  (RegisteredMessage /\ WasPending = {} /\ MarkerPositions(SentText) # {}) =>
    /\ Len(calls) = 1
    /\ calls[1].op = "send_message_to_website"
    /\ calls[1].text = SentText
    /\ calls[1].hashtags[1] = FirstMarkerToken(SentText)
    /\ Len(calls[1].hashtags) = Cardinality(MarkerPositions(SentText))
    /\ Len(replies) = 1
    /\ IF Succeeded(calls[1])
         THEN /\ StatAfter("words_saved") = StatBefore("words_saved") + 1
              /\ replies[1].kind = "word_saved"
              /\ replies[1].text = FirstMarkerToken(SentText)
         ELSE /\ StatAfter("words_saved") = StatBefore("words_saved")
              /\ replies[1].kind = "error"
    /\ user_data[ev.uid] = NoFlags

\* a note with two marker tokens, the first of them not the first word, was saved
C4_Witness ==
  /\ RegisteredMessage /\ WasPending = {}
  /\ Cardinality(MarkerPositions(SentText)) = 2
  /\ 1 \notin MarkerPositions(SentText)
  /\ Len(calls) = 1 /\ Succeeded(calls[1])
  /\ StatAfter("words_saved") = 1

(* C5: with no flow pending, a text of a registered user that is a menu     *)
(* label and contains a marker token is handled as a tagged note: the note  *)
(* is sent to the website, no menu action is performed, no flag is set.     *)
C5_NoteBeforeMenu ==
  (RegisteredMessage /\ WasPending = {}
     /\ IsMenuLabel(SentText, ev.users[SenderKey].language)
     /\ MarkerPositions(SentText) # {}) =>
    /\ RequestOps = {"send_message_to_website"}
    /\ ReplyKinds \subseteq {"word_saved", "error"}
    /\ ReplyKinds \cap MenuReplies = {}
    /\ user_data[ev.uid] = NoFlags

\* the open-website label, which carries a marker token, was saved as a note
C5_Witness ==
  /\ RegisteredMessage /\ WasPending = {}
  /\ lower(SentText) = lower(get_text("open_website", ev.users[SenderKey].language))
  /\ MarkerPositions(SentText) # {}
  /\ ReplyKinds = {"word_saved"}

-----------------------------------------------------------------------------
\* the first space-separated token of a text and what follows its space
FirstSpace(text) ==
  IF \E i \in 1..Len(text) : text[i] = " "
    THEN CHOOSE i \in 1..Len(text) : text[i] = " " /\ \A j \in 1..Len(text) : text[j] = " " => i <= j
    ELSE Len(text) + 1
FirstToken(text) == SubSeq(text, 1, FirstSpace(text) - 1)
AfterFirstToken(text) == SubSeq(text, FirstSpace(text) + 1, Len(text))
HasMarker(token) == Len(token) > 0 /\ token[1] = "#"

\* the sender's language before the update
LanguageBefore == ev.users[SenderKey].language

(* C6: a user in create mode who sends a text whose first token lacks the   *)
(* marker is out of create mode afterwards, with no create_hashtag request  *)
(* and hashtags_created unchanged; the flow is not resumed: a create_hashtag *)
(* request is only made for a user who was in create mode, and a user only  *)
(* enters create mode by sending the create-category label.                 *)
C6_AbortNotResumed ==
  /\ (RegisteredMessage /\ WasPending = {"awaiting_hashtag_create"}
        /\ ~HasMarker(FirstToken(SentText))) =>
       /\ user_data[ev.uid] = NoFlags
       /\ calls = <<>>
       /\ ReplyKinds = {"hashtag_must_start"}
       /\ StatAfter("hashtags_created") = StatBefore("hashtags_created")
  /\ "create_hashtag" \in RequestOps =>
       RegisteredMessage /\ ev.user_data[ev.uid].awaiting_hashtag_create
  /\ \A u \in UserIds :
       (ev.kind # "idle" /\ user_data[u].awaiting_hashtag_create
          /\ ~ev.user_data[u].awaiting_hashtag_create) =>
         /\ RegisteredMessage /\ ev.uid = u
         /\ lower(SentText) = lower(get_text("create_hashtag", LanguageBefore))

\* in create mode the user sent a text with marker tokens, but not as its first token
C6_Witness ==
  /\ RegisteredMessage /\ WasPending = {"awaiting_hashtag_create"}
  /\ ~HasMarker(FirstToken(SentText))
  /\ MarkerPositions(SentText) # {}
  /\ user_data[ev.uid] = NoFlags

(* C7: a user in create mode who sends a text whose first space-separated   *)
(* token has the marker: exactly one create_hashtag request, with that      *)
(* token as name and the rest of the text as description; hashtags_created  *)
(* grows by 1 on status 200 and keeps its value on 409 and on every other   *)
(* outcome; the user is out of every flow afterwards.                       *)
C7_CreateInput ==
  (RegisteredMessage /\ WasPending = {"awaiting_hashtag_create"}
     /\ HasMarker(FirstToken(SentText))) =>
    /\ Len(calls) = 1
    /\ calls[1].op = "create_hashtag"
    /\ calls[1].name = FirstToken(SentText)
    /\ calls[1].description = AfterFirstToken(SentText)
    /\ StatAfter("hashtags_created") =
         StatBefore("hashtags_created") + (IF Succeeded(calls[1]) THEN 1 ELSE 0)
    /\ ReplyKinds = (IF Succeeded(calls[1]) THEN {"hashtag_created"} ELSE {"error"})
    /\ user_data[ev.uid] = NoFlags

\* the website answered 409 to a create request that carried a description
C7_Witness ==
  /\ RegisteredMessage /\ WasPending = {"awaiting_hashtag_create"}
  /\ Len(calls) = 1 /\ calls[1].op = "create_hashtag"
  /\ calls[1].status_code = 409
  /\ calls[1].description # <<>>
  /\ StatAfter("hashtags_created") = 0

(* C8: a user in delete mode (entered by the delete-category label) who     *)
(* sends a text: if it starts with the marker, exactly one delete_hashtag   *)
(* request with the text as name, and hashtags_deleted grows by 1 on status *)
(* 200 and keeps its value otherwise; if it lacks the marker, no request    *)
(* and no change; the user is out of every flow afterwards in every case.   *)
C8_DeleteInput ==
  /\ (RegisteredMessage /\ WasPending = {"awaiting_hashtag_delete"}) =>
       /\ user_data[ev.uid] = NoFlags
       /\ IF HasMarker(SentText)
            THEN /\ Len(calls) = 1
                 /\ calls[1].op = "delete_hashtag"
                 /\ calls[1].name = SentText
                 /\ StatAfter("hashtags_deleted") =
                      StatBefore("hashtags_deleted") + (IF Succeeded(calls[1]) THEN 1 ELSE 0)
            ELSE /\ calls = <<>>
                 /\ StatAfter("hashtags_deleted") = StatBefore("hashtags_deleted")
  /\ \A u \in UserIds :
       (ev.kind # "idle" /\ user_data[u].awaiting_hashtag_delete
          /\ ~ev.user_data[u].awaiting_hashtag_delete) =>
         /\ RegisteredMessage /\ ev.uid = u
         /\ lower(SentText) = lower(get_text("delete_hashtag", LanguageBefore))
         /\ RequestOps = {"get_hashtags"}

\* the category was deleted and counted
C8_Witness ==
  /\ RegisteredMessage /\ WasPending = {"awaiting_hashtag_delete"}
  /\ Len(calls) = 1 /\ calls[1].op = "delete_hashtag" /\ calls[1].name = TagW
  /\ Succeeded(calls[1])
  /\ StatAfter("hashtags_deleted") = 1
  /\ user_data[ev.uid] = NoFlags

\* the items of a listing whose category is the one asked for
Matching(listing, category) ==
  {i \in 1..Len(listing) : listing[i].category = category}

(* C9: a user in import mode who sends a marker-prefixed category for which *)
(* the item listing the website returns holds no matching item is answered  *)
(* "no words found": nothing is rendered, pdfs_generated keeps its value    *)
(* and the user is out of every flow afterwards.                            *)
C9_ImportNoItems ==
  (RegisteredMessage /\ WasPending = {"awaiting_category_import"}
     /\ HasMarker(SentText)
     /\ Len(calls) > 0 /\ Succeeded(calls[1])
     /\ Matching(calls[1].json, SentText) = {}) =>
    /\ Len(calls) = 1 /\ calls[1].op = "get_words_by_category"
    /\ Len(replies) = 1 /\ replies[1].kind = "no_words_found"
    /\ renders = <<>>
    /\ StatAfter("pdfs_generated") = StatBefore("pdfs_generated")
    /\ user_data[ev.uid] = NoFlags

\* the listing held items, none of them of the category asked for
C9_Witness ==
  /\ RegisteredMessage /\ WasPending = {"awaiting_category_import"}
  /\ HasMarker(SentText)
  /\ Len(calls) = 1 /\ Succeeded(calls[1])
  /\ calls[1].json # <<>>
  /\ Matching(calls[1].json, SentText) = {}
  /\ ReplyKinds = {"no_words_found"}

\* the language tokens: 1/english/en/(angliyskiy) for en, 2/(russkiy)/ru/russian
\* for ru, 3/(uzbekskiy)/uz/uzbek/o'zbek for uz
TokenLanguage(token) ==
  IF token \in {<<"1">>, <<"e", "n", "g", "l", "i", "s", "h">>, <<"e", "n">>,
       <<"cy_a", "cy_n", "cy_g", "cy_l", "cy_i", "cy_j", "cy_s", "cy_k", "cy_i", "cy_j">>}
    THEN "en"
  ELSE IF token \in {<<"2">>, <<"cy_r", "cy_u", "cy_s", "cy_s", "cy_k", "cy_i", "cy_j">>,
       <<"r", "u">>, <<"r", "u", "s", "s", "i", "a", "n">>}
    THEN "ru"
  ELSE IF token \in {<<"3">>,
       <<"cy_u", "cy_z", "cy_b", "cy_e", "cy_k", "cy_s", "cy_k", "cy_i", "cy_j">>,
       <<"u", "z">>, <<"u", "z", "b", "e", "k">>, <<"o", "'", "z", "b", "e", "k">>}
    THEN "uz"
  ELSE "unrecognized"

ConfirmationIn(lang) ==
  CASE lang = "en" -> "language_set_english"
    [] lang = "ru" -> "language_set_russian"
    [] lang = "uz" -> "language_set_uzbek"

(* C10: a user in language mode who sends a recognized language token, in   *)
(* any letter case, has the token's language stored, gets the confirmation  *)
(* in that language and is out of every flow afterwards.                    *)
C10_LanguageChosen ==
  (RegisteredMessage /\ WasPending = {"awaiting_language"}
     /\ TokenLanguage(lower(SentText)) \in Languages) =>
    LET lang == TokenLanguage(lower(SentText))
    IN /\ users[SenderKey].language = lang
       /\ Len(replies) = 1
       /\ replies[1].kind = ConfirmationIn(lang) /\ replies[1].lang = lang
       /\ user_data[ev.uid] = NoFlags

\* a token with a capital letter changed the language from en to ru
C10_Witness ==
  /\ RegisteredMessage /\ WasPending = {"awaiting_language"}
  /\ SentText # lower(SentText)
  /\ LanguageBefore = "en"
  /\ users[SenderKey].language = "ru"
  /\ ReplyKinds = {"language_set_russian"}

-----------------------------------------------------------------------------
\* a user in language mode sent a text that is no language token
UnrecognizedChoice ==
  /\ RegisteredMessage /\ WasPending = {"awaiting_language"}
  /\ TokenLanguage(lower(SentText)) = "unrecognized"

\* the records present before and after the update whose language differs
LanguageChanged ==
  {k \in DOMAIN ev.users \cap DOMAIN users : users[k].language # ev.users[k].language}

(* C11 as stated: a user in language mode who sends a text that is no       *)
(* language token gets the trilingual invalid-choice reply, keeps the       *)
(* stored language and is still in language mode afterwards.                *)
C11_StaysPending ==
  UnrecognizedChoice =>
    /\ ReplyKinds = {"invalid_language_choice"}
    /\ users[SenderKey].language = LanguageBefore
    /\ user_data[ev.uid].awaiting_language

(* C11 amended: a user in language mode who sends a text that is no         *)
(* language token gets the trilingual invalid-choice reply, keeps the       *)
(* stored language and is out of every flow afterwards; the language of a   *)
(* record only changes on a message of its user in language mode, and a     *)
(* user only enters language mode by sending the language label.            *)
C11_InvalidChoiceAborts ==
  /\ UnrecognizedChoice =>
       /\ Len(replies) = 1
       /\ replies[1].kind = "invalid_language_choice" /\ replies[1].lang = "en/ru/uz"
       /\ users[SenderKey].language = LanguageBefore
       /\ user_data[ev.uid] = NoFlags
  /\ \A k \in LanguageChanged :
       RegisteredMessage /\ SenderKey = k /\ ev.user_data[ev.uid].awaiting_language
  /\ \A u \in UserIds :
       (ev.kind # "idle" /\ user_data[u].awaiting_language
          /\ ~ev.user_data[u].awaiting_language) =>
         /\ RegisteredMessage /\ ev.uid = u
         /\ lower(SentText) = lower(get_text("language_button", LanguageBefore))

\* the user answered the language prompt with a text that is no language token
C11_Witness ==
  /\ UnrecognizedChoice
  /\ SentText # <<>>
  /\ ReplyKinds = {"invalid_language_choice"}
  /\ user_data[ev.uid] = NoFlags

-----------------------------------------------------------------------------
\* the requests of the create, delete and import flows: the fetch of the
\* category list of the menu step and the request of the input step
FlowStepOps == {"get_hashtags", "create_hashtag", "delete_hashtag", "get_words_by_category"}

\* a step of one of the three flows made a request that failed
FlowStepFailed ==
  /\ RegisteredMessage
  /\ Len(calls) > 0
  /\ calls[1].op \in FlowStepOps
  /\ ~Succeeded(calls[1])

(* C12: when the request made by a step of the create, delete or import     *)
(* flow fails (an exception of the connection or a status other than 200),  *)
(* the user gets an error reply, the request was made once and the user is  *)
(* in no flow afterwards.                                                   *)
C12_FailedStepIdle ==
  FlowStepFailed =>
    /\ Len(calls) = 1
    /\ ReplyKinds = {"error"}
    /\ user_data[ev.uid] = NoFlags

-----------------------------------------------------------------------------
\* a /start, /help, /register or /profile command was just handled
CommandKinds == {"start", "help", "register", "profile"}
CommandHandled == ev.kind \in CommandKinds

(* C13: after a command (/start, /help, /profile, /register) of a user is   *)
(* handled, that user is in no flow, whatever flow was pending before.      *)
C13_CommandClearsFlow ==
  CommandHandled => user_data[ev.uid] = NoFlags

-----------------------------------------------------------------------------
(* Vocabulary of the properties of SpecStore: the call that just returned *)

CallKey == str(ev.uid)
CalledOnPresent == CallKey \in DOMAIN ev.users

\* every record but the one of the call's user is as it was
OthersUnchanged ==
  \A k \in (DOMAIN ev.users) \ {CallKey} : k \in DOMAIN users /\ users[k] = ev.users[k]

(* C14: register_user on an absent id returns True and adds exactly one     *)
(* record, with language en and the five counters at 0; register_user on a  *)
(* present id, with any names, returns False and leaves the record and the  *)
(* record set as they were.                                                 *)
C14_RegisterOnce ==
  ev.kind = "register_user" =>
    IF ~CalledOnPresent
      THEN /\ ev.ret = TRUE
           /\ DOMAIN users = (DOMAIN ev.users) \cup {CallKey}
           /\ OthersUnchanged
           /\ users[CallKey].user_id = ev.uid
           /\ users[CallKey].language = "en"
           /\ DOMAIN users[CallKey].stats = StatNames
           /\ \A n \in StatNames : users[CallKey].stats[n] = 0
      ELSE /\ ev.ret = FALSE
           /\ users = ev.users

\* a second registration, under another name, of a user whose counters have grown
C14_Witness ==
  /\ ev.kind = "register_user"
  /\ CalledOnPresent
  /\ ev.args.first_name # ev.users[CallKey].first_name
  /\ ev.users[CallKey].stats.words_saved > 0
  /\ ev.ret = FALSE

\* the counted calls that raise a counter of a user: increment_stat with that
\* name, and for total_messages update_user_activity as well
CallsCounted(u, n) ==
  tally[u].inc[n] + (IF n = "total_messages" THEN tally[u].touch ELSE 0)

(* C15: each counter of a present user equals the number of calls that      *)
(* were made for that user with that counter's name since the record was    *)
(* created (update_user_activity counting for total_messages); a call of    *)
(* increment_stat with a name that is no counter, or for an absent user,    *)
(* changes no record and creates no record and no counter.                  *)
C15_CountersCountCalls ==
  /\ \A u \in UserIds :
       str(u) \in DOMAIN users =>
         /\ DOMAIN users[str(u)].stats = StatNames
         /\ \A n \in StatNames : users[str(u)].stats[n] = CallsCounted(u, n)
  /\ (ev.kind = "increment_stat" /\ (~CalledOnPresent \/ ev.args \notin StatNames)) =>
       users = ev.users

\* a call with a name that is no counter, for a user with a counted call
C15_Witness ==
  /\ ev.kind = "increment_stat"
  /\ CalledOnPresent
  /\ ev.args \notin StatNames
  /\ tally[ev.uid].inc["hashtags_deleted"] = 1
  /\ users[CallKey].stats.hashtags_deleted = 1

(* C16: update_user_activity on a present user adds exactly 1 to            *)
(* total_messages and changes no other counter, so that N calls add N; on   *)
(* an absent user it changes nothing.                                       *)
C16_TouchCounts ==
  /\ ev.kind = "update_user_activity" =>
       IF CalledOnPresent
         THEN /\ DOMAIN users = DOMAIN ev.users
              /\ OthersUnchanged
              /\ users[CallKey].stats =
                   [ev.users[CallKey].stats EXCEPT !.total_messages = @ + 1]
         ELSE users = ev.users
  /\ \A u \in UserIds :
       str(u) \in DOMAIN users =>
         users[str(u)].stats.total_messages - tally[u].inc["total_messages"] = tally[u].touch

\* the second call of update_user_activity for a user
C16_Witness ==
  /\ ev.kind = "update_user_activity"
  /\ CalledOnPresent
  /\ tally[ev.uid].touch = 2
  /\ users[CallKey].stats.total_messages = 2

(* C17: update_user_language for an absent user changes nothing and        *)
(* creates no record; for a present user it changes only the language and   *)
(* last_activity of that user's record: its counters, registered_at,        *)
(* preferences and names, and the records of the other users, stay.         *)
C17_SetLanguageFrame ==
  ev.kind = "update_user_language" =>
    IF CalledOnPresent
      THEN /\ DOMAIN users = DOMAIN ev.users
           /\ OthersUnchanged
           /\ users[CallKey].language = ev.args
           /\ users[CallKey] =
                [ev.users[CallKey] EXCEPT !.language = users[CallKey].language,
                                          !.last_activity = users[CallKey].last_activity]
      ELSE users = ev.users

\* the language of a user whose counter has grown was changed at a later
\* reading of the clock, while the other user has a record too
C17_Witness ==
  /\ ev.kind = "update_user_language"
  /\ CalledOnPresent
  /\ Cardinality(DOMAIN ev.users) = 2
  /\ ev.users[CallKey].stats.total_messages > 0
  /\ ev.users[CallKey].language = "en" /\ users[CallKey].language = "ru"
  /\ users[CallKey].last_activity > ev.users[CallKey].last_activity

(* C18: from one state to the next, no counter of a record that is there   *)
(* in both states decreases.                                                *)
C18_CountersMonotone ==
  [][\A k \in (DOMAIN users) \cap (DOMAIN users') :
       \A n \in StatNames : users'[k].stats[n] >= users[k].stats[n]]_vars

\* total_messages grew a second time, by increment_stat after a call of
\* update_user_activity
C18_Witness ==
  /\ ev.kind = "increment_stat"
  /\ CalledOnPresent
  /\ ev.args = "total_messages"
  /\ tally[ev.uid].touch = 1
  /\ ev.users[CallKey].stats.total_messages = 1
  /\ users[CallKey].stats.total_messages = 2

(* C19: with a clock that never goes back, every record in every reachable *)
(* state has last_activity >= registered_at.                                *)
C19_ActivityAfterRegistration ==
  \A k \in DOMAIN users : users[k].last_activity >= users[k].registered_at

\* the clock advanced between the two readings of a registration
C19_Witness ==
  /\ ev.kind = "register_user"
  /\ ev.ret = TRUE
  /\ users[CallKey].last_activity > users[CallKey].registered_at

-----------------------------------------------------------------------------
\* the update just handled created the record of its sender
JustRegistered ==
  /\ ev.kind \in {"message", "register"}
  /\ SenderKey \notin DOMAIN ev.users
  /\ SenderKey \in DOMAIN users

(* C20: after any sequence of messages and commands the language of every   *)
(* stored record is one of en, ru, uz, and the language of a record is en   *)
(* when the update that created it has been handled.                        *)
C20_LanguageEnumerated ==
  /\ \A k \in DOMAIN users : users[k].language \in Languages
  /\ JustRegistered => users[SenderKey].language = "en"

\* a user in language mode chose Uzbek
C20_Witness ==
  /\ RegisteredMessage /\ WasPending = {"awaiting_language"}
  /\ LanguageBefore = "en"
  /\ users[SenderKey].language = "uz"

-----------------------------------------------------------------------------
\* the call that just returned is one that changes a record: register_user
\* for an absent user, update_user_language and update_user_activity for a
\* present one, increment_stat for a present one with the name of a counter
MutatingCall ==
  \/ ev.kind = "register_user" /\ ~CalledOnPresent
  \/ ev.kind \in {"update_user_language", "update_user_activity"} /\ CalledOnPresent
  \/ ev.kind = "increment_stat" /\ CalledOnPresent /\ ev.args \in StatNames

\* users.json holds exactly these records
Persisted(records) == [state |-> "json", data |-> records]

(* C21: every call that changes a record writes users.json before it        *)
(* returns: when the write succeeds the file holds exactly the records in   *)
(* memory, whatever earlier writes did, and a write that fails after the    *)
(* file was opened leaves the file it truncated.                            *)
C21_WriteThrough ==
  MutatingCall =>
    /\ ev.input.fs = "ok" => disk = Persisted(users)
    /\ ev.input.fs = "write_error" => disk.state = "corrupt"
    /\ ev.input.fs = "open_error" => disk = ev.disk

\* a successful write after a failed one: the file lacked a record before the call
C21_Witness ==
  /\ MutatingCall
  /\ ev.input.fs = "ok"
  /\ faults = 1
  /\ ev.disk # Persisted(ev.users)
  /\ disk = Persisted(users)

-----------------------------------------------------------------------------
\* an update was just handled by one of the handlers
UpdateKinds == {"message", "start", "help", "register", "profile"}
UpdateHandled == ev.kind \in UpdateKinds

\* the program state the handler of ev started from
PreWorld == [users |-> ev.users, disk |-> ev.disk, user_data |-> ev.user_data,
             calls |-> <<>>, replies |-> <<>>, renders |-> <<>>]

\* what the handler of ev leaves when every write of users.json succeeds
WithWorkingDisk ==
  Handler(ev.kind, PreWorld, ev.uid, ev.text, [ev.input EXCEPT !.fs = "ok"])

\* the writes of users.json failed while ev was handled
PersistFailed == UpdateHandled /\ ev.input.fs # "ok"

(* C22: when the writes of users.json fail while an update is handled, the  *)
(* handler ends as it does when they succeed: the records in memory, the    *)
(* flags, the requests and the replies are the same, so the change is kept  *)
(* and no reply tells of the failure; /profile shows the counter in memory. *)
C22_FailedPersistKept ==
  /\ PersistFailed =>
       /\ users = WithWorkingDisk.users
       /\ users # ev.users
       /\ user_data = WithWorkingDisk.user_data
       /\ calls = WithWorkingDisk.calls
       /\ replies = WithWorkingDisk.replies
       /\ disk # Persisted(users)
  /\ (ev.kind = "profile" /\ WasRegistered) =>
       /\ Len(replies) = 1 /\ replies[1].kind = "profile"
       /\ replies[1].code = users[SenderKey].stats.total_messages

\* /profile shows a message count that the file does not hold
C22_Witness ==
  /\ ev.kind = "profile" /\ WasRegistered
  /\ faults = 1
  /\ disk # Persisted(users)
  /\ replies[1].code = 1

-----------------------------------------------------------------------------
\* what the input step of a flow asks of the website and replies
FlowInputOps == {"create_hashtag", "delete_hashtag", "get_words_by_category"}
FlowInputReplies ==
  {"hashtag_must_start", "hashtag_created", "hashtag_deleted", "category_must_start",
   "no_words_found", "document", "error_sending_pdf", "error_generating_pdf",
   "language_set_english", "language_set_russian", "language_set_uzbek",
   "invalid_language_choice"}

(* C23: after a restart no user is in a flow, whatever flow was pending     *)
(* before, and the records are those users.json holds; a message of a user  *)
(* who is in no flow is not taken as the input of a flow.                   *)
C23_RestartClearsFlows ==
  /\ ev.kind = "restart" =>
       /\ \A u \in UserIds : user_data[u] = NoFlags
       /\ users = (IF disk.state = "json" THEN disk.data ELSE <<>>)
       /\ users = ev.users
  /\ (RegisteredMessage /\ WasPending = {}) =>
       /\ RequestOps \cap FlowInputOps = {}
       /\ ReplyKinds \cap FlowInputReplies = {}

\* the restart found user 1 in create mode, with a message counted
C23_Witness ==
  /\ ev.kind = "restart"
  /\ ev.user_data[1].awaiting_hashtag_create
  /\ "1" \in DOMAIN users
  /\ users["1"].stats.total_messages = 1
  /\ user_data[1] = NoFlags

-----------------------------------------------------------------------------
\* the users with a handler that waits for the website
WaitingUsers == {w.uid : w \in inflight}

(* C24: the handling of two updates is never interleaved: at most one       *)
(* handler waits for the website, no update is taken or completed for any   *)
(* user while another handler waits, and the handler that was waiting ends  *)
(* on the state it started from.                                            *)
C24_OneAtATime ==
  /\ Cardinality(inflight) <= 1
  /\ inflight # {} => ev = Idle
  /\ UpdateHandled => inflight = {}

\* the handler of a tagged note of user 2 waits for the website while user 1
\* is in create mode
C24_Witness ==
  /\ \E w \in inflight : w.uid = 2 /\ w.kind = "message" /\ hashtags_of(w.text) # <<>>
  /\ user_data[1].awaiting_hashtag_create

(* C25: while the handler of one user waits for the website, an update of   *)
(* another user can be handled to completion.                               *)
C25_OthersNotDelayed ==
  inflight # {} =>
    \A u \in UserIds \ WaitingUsers : ENABLED HandleLocal("start", u, <<>>)

-----------------------------------------------------------------------------
\* what the client function of a recorded request made of its response
ClientResult(call) ==
  LET resp == [exc |-> call.exc, status_code |-> call.status_code, json |-> call.json]
  IN CASE call.op = "send_message_to_website" -> send_message_to_website(resp)
       [] call.op = "sync_user_to_backend" -> sync_user_to_backend(resp)
       [] call.op = "create_hashtag" -> create_hashtag(resp)
       [] call.op = "delete_hashtag" -> delete_hashtag(resp)
       [] call.op = "get_hashtags" -> get_hashtags(resp)
       [] OTHER -> get_words_by_category(call.name, resp)

(* C26: every client function reports success for every response with a    *)
(* 2xx status, an error for every other status, and an error on a           *)
(* connectivity failure.                                                    *)
C26_UniformMapping ==
  \A i \in 1..Len(calls) :
    LET call == calls[i]
        result == ClientResult(call)
    IN /\ (call.exc = NoException /\ call.status_code \in 200..299) => result.ok
       /\ (call.exc = NoException /\ call.status_code \notin 200..299) => ~result.ok
       /\ call.exc # NoException => ~result.ok

-----------------------------------------------------------------------------
(* C27: handling one text message of a registered user increases that       *)
(* user's total_messages by exactly 1, whatever the message is.             *)
C27_OneMessageOneCount ==
  RegisteredMessage =>
    StatAfter("total_messages") = StatBefore("total_messages") + 1

-----------------------------------------------------------------------------
\* a registered user in no flow sent the label of this menu item
Selected(key) ==
  /\ RegisteredMessage
  /\ WasPending = {}
  /\ lower(SentText) = lower(get_text(key, ev.users[SenderKey].language))

ListFlag(key) ==
  IF key = "delete_hashtag" THEN "awaiting_hashtag_delete" ELSE "awaiting_category_import"

\* the one request of the update is a get_hashtags that succeeded
ListFetched == Len(calls) > 0 /\ Succeeded(calls[1])

(* C28: when a registered user in no flow selects the delete item (the      *)
(* import item) and the list of hashtags is fetched, the user is in delete  *)
(* mode (import mode) afterwards, also when the list is empty, and          *)
(* get_hashtags was called exactly once.                                    *)
C28_ListStepEntersFlow ==
  \A key \in {"delete_hashtag", "import_list"} :
    (Selected(key) /\ ListFetched) =>
      /\ Len(calls) = 1
      /\ calls[1].op = "get_hashtags"
      /\ PendingFlags(user_data[ev.uid]) = {ListFlag(key)}

\* the delete item was selected, the website has no hashtag and the user is in delete mode
C28_Witness ==
  /\ Selected("delete_hashtag")
  /\ ListFetched
  /\ calls[1].json = <<>>
  /\ "no_hashtags_found" \in ReplyKinds
  /\ user_data[ev.uid].awaiting_hashtag_delete

-----------------------------------------------------------------------------
\* a message of a registered user in import mode was just handled
ImportInput == RegisteredMessage /\ WasPending = {"awaiting_category_import"}

(* C29: in the import flow pdfs_generated grows by exactly 1 when the       *)
(* document was delivered and keeps its value in every other case: no       *)
(* marker, failed fetch, no items, failed rendering, document not sent.     *)
C29_PdfCountedWhenSent ==
  ImportInput =>
    StatAfter("pdfs_generated") =
      StatBefore("pdfs_generated") + (IF "document" \in ReplyKinds THEN 1 ELSE 0)

-----------------------------------------------------------------------------
\* a user without a record sent /register or the register label
RegisterAsked ==
  /\ UpdateHandled
  /\ ~WasRegistered
  /\ \/ ev.kind = "register"
     \/ ev.kind = "message" /\ lower(SentText) = lower(get_text("register", "en"))

\* the record of the sender as registration leaves it, in memory and in the file
FreshRecord ==
  /\ SenderKey \in DOMAIN users
  /\ users[SenderKey].language = "en"
  /\ \A name \in StatNames : users[SenderKey].stats[name] = 0
  /\ disk = Persisted(users)

(* C30: when a user without a record sends the register label or           *)
(* /register, the record is created with language en and all counters 0,    *)
(* whether sync_user_to_backend succeeds or fails; the sync is attempted     *)
(* exactly once, and no step ever removes a record, so the user is           *)
(* registered for all later messages.                                        *)
C30_RegisteredDespiteSync ==
  /\ [](RegisterAsked =>
          /\ FreshRecord
          /\ Len(calls) = 1
          /\ calls[1].op = "sync_user_to_backend")
  /\ [][DOMAIN users \subseteq DOMAIN users']_vars

\* the website was not reachable when the user registered, and the user has a record
C30_Witness ==
  /\ RegisterAsked
  /\ calls[1].exc = "ConnectionError"
  /\ replies[Len(replies)].message = "user_sync_failed"
  /\ FreshRecord

-----------------------------------------------------------------------------
(* C31: under the updates of the dispatcher alone a user with a pending     *)
(* flow has a record: no message and no command of a user without a record  *)
(* sets one of the awaiting_* flags.                                        *)
C31_PendingIsRegistered ==
  \A u \in UserIds : PendingFlags(user_data[u]) # {} => str(u) \in DOMAIN users

\* a user without a record sent the create label and is in no flow, while the
\* other user, who has a record, is in a flow
C31_Witness ==
  /\ MessageHandled
  /\ ~WasRegistered
  /\ lower(SentText) = lower(get_text("create_hashtag", "en"))
  /\ SenderKey \notin DOMAIN users
  /\ PendingFlags(user_data[ev.uid]) = {}
  /\ \E u \in UserIds \ {ev.uid} :
       str(u) \in DOMAIN users /\ PendingFlags(user_data[u]) # {}

-----------------------------------------------------------------------------
\* the users other than the sender of the update just handled
OtherUsers == UserIds \ {ev.uid}

(* C32: handling a message or a command of one user leaves the record of    *)
(* every other user (language, timestamps, counters, presence) and the      *)
(* pending flow of every other user as they were.                           *)
C32_OthersUntouched ==
  UpdateHandled =>
    \A u \in OtherUsers :
      /\ user_data[u] = ev.user_data[u]
      /\ str(u) \in DOMAIN users <=> str(u) \in DOMAIN ev.users
      /\ str(u) \in DOMAIN users => users[str(u)] = ev.users[str(u)]

\* a message changed the record and the flow of its sender while the other
\* user has a record and is in a flow
C32_Witness ==
  /\ RegisteredMessage
  /\ users[SenderKey] # ev.users[SenderKey]
  /\ user_data[ev.uid] # ev.user_data[ev.uid]
  /\ \E u \in OtherUsers :
       str(u) \in DOMAIN users /\ PendingFlags(user_data[u]) # {}

-----------------------------------------------------------------------------
\* the process was just started again after a write of users.json had failed
RestartedAfterFailure == ev.kind = "restart" /\ faults > 0

(* C33: when a write of users.json has failed and the process starts again, *)
(* the records loaded are those the last write that succeeded had written:  *)
(* a failed write loses none of them.                                       *)
C33_RestartLoadsLastStored ==
  RestartedAfterFailure => users = stored

====
